---- MODULE Spec2Model ----
(***************************************************************************)
(* Model of monthly_file_diff: template resolution, file-name and path     *)
(* normalisation, period discovery and the bounded tree walk of            *)
(* src/src/lib.rs.                                                         *)
(*                                                                         *)
(* Text is modelled as a sequence of one-character strings, so that the    *)
(* substring searches and replacements of the code are computed character  *)
(* by character: "{mm}" is <<"{", "m", "m", "}">>.                         *)
(***************************************************************************)
EXTENDS Integers, Sequences, FiniteSets, TLC

VARIABLES
    platform,             \* the build target, which fixes std::path's separators
    pc,                   \* position of the call sequence under analysis
    name,                 \* normalize_filename: the file name
    yyyy,                 \* normalize_filename / normalize_rel_path: the year
    mm,                   \* normalize_filename / normalize_rel_path: the month
    normalized,           \* result of normalize_filename
    restored,             \* result of resolve_template on the normalized name
    renormalized,         \* result of normalize_filename on the normalized name
    rel_path,             \* normalize_rel_path: the relative path
    normalized_rel_path,  \* result of normalize_rel_path
    path_template,        \* resolve_template / extract_dates_from_template
    date,                 \* resolve_template / collect_files: the period
    resolved,             \* result of resolve_template
    dir_readable,         \* file system: fs::read_dir of the scan directory succeeds
    dir_entries,          \* file system: the names in the scan directory
    base_dir,             \* extract_dates_from_template: the directory it scans
    folder_tpl,           \* extract_dates_from_template: the pattern segment
    dates,                \* result of extract_dates_from_template
    root_kind,            \* file system: what the root of the walk is
    tree,                 \* file system: the files and directories below the root
    max_depth,            \* collect_files: the depth bound
    out,                  \* result of collect_files
    cursor,               \* extract_dates_from_template: the cursor of its walk
    args_dates,           \* main: the --dates argument, NoArg when not given
    roots,                \* file system: what each period's folder holds
    main_dates,           \* main: dates, the periods of the loop
    next_date,            \* main: index of the next period of the loop
    all,                  \* main: the grouped records, key -> list
    key_order,            \* main: the order in which the map all iterates
    csv_rows,             \* main: the rows written to the CSV output
    html_sections,        \* write_html_report: the sections written
    id_input,             \* sanitize_id: the text
    id_hash,              \* sanitize_id: the hash of the text, in hexadecimal
    id_result,            \* result of sanitize_id
    created_at,           \* file system: creation time of a file
    modified_at,          \* file system: modification time of a file
    created,              \* collect_files: FileInfo.created
    modified              \* collect_files: FileInfo.modified

normVars == <<name, yyyy, mm, normalized, restored, renormalized>>
relVars  == <<rel_path, normalized_rel_path>>
resVars  == <<path_template, date, resolved>>
discVars == <<dir_readable, dir_entries, base_dir, folder_tpl, dates>>
collVars == <<root_kind, tree, max_depth, out>>
selVars  == <<cursor>>
mainVars == <<args_dates, roots, main_dates, next_date, all, key_order,
              csv_rows, html_sections>>
idVars   == <<id_input, id_hash, id_result>>
stampVars == <<created_at, modified_at, created, modified>>
moreVars == <<selVars, mainVars, idVars, stampVars>>
vars     == <<platform, pc, normVars, relVars, resVars, discVars, collVars,
              moreVars>>

----------------------------------------------------------------------------
(* Bounds of the model.                                                    *)

\* a file name is the concatenation of at most this many NamePieces
MaxNamePieces == 3

\* a relative path has at most this many segments, the file name included
MaxSegments == 3

\* a template given to resolve_template is made of at most this many
\* TemplatePieces
MaxTemplatePieces == 3

\* the scan directory of discovery holds at most this many entries
MaxEntries == 3

\* the tree below the root of a walk has files down to this depth
MaxTreeDepth == 4

\* collect_files is called with a depth bound of at most this
MaxDepthArg == 3

\* the --dates argument lists at most this many entries
MaxDateArgs == 2

----------------------------------------------------------------------------
(* Text helpers.                                                           *)

TokY == <<"{", "y", "y", "y", "y", "}">>
TokM == <<"{", "m", "m", "}">>
TokD == <<"{", "d", "d", "}">>

RECURSIVE Concat(_)
Concat(ss) == IF ss = <<>> THEN <<>> ELSE Head(ss) \o Concat(Tail(ss))

\* all texts made of at most n pieces of the set P
TextsOf(P, n) == UNION { { Concat(ps) : ps \in [1..k -> P] } : k \in 0..n }

\* segs joined by the separator sep
RECURSIVE JoinWith(_, _)
JoinWith(segs, sep) ==
    IF Len(segs) = 0 THEN <<>>
    ELSE IF Len(segs) = 1 THEN segs[1]
    ELSE segs[1] \o <<sep>> \o JoinWith(Tail(segs), sep)

\* str::contains(pat)
Contains(s, pat) ==
    \E i \in 1..(Len(s) - Len(pat) + 1) : SubSeq(s, i, i + Len(pat) - 1) = pat

\* str::replace(from, to): scans left to right, replaces each match found and
\* resumes the scan after the match (matches never overlap); from is not empty
RECURSIVE Replace(_, _, _)
Replace(s, from, to) ==
    IF Len(s) < Len(from) THEN s
    ELSE IF SubSeq(s, 1, Len(from)) = from
         THEN to \o Replace(SubSeq(s, Len(from) + 1, Len(s)), from, to)
         ELSE <<Head(s)>> \o Replace(Tail(s), from, to)

DigitChar(d) == <<"0", "1", "2", "3", "4", "5", "6", "7", "8", "9">>[d + 1]

\* format!("{}", n) / n.to_string() of an integer: decimal, no padding
RECURSIVE to_string(_)
to_string(n) ==
    IF n < 0 THEN <<"-">> \o to_string(0 - n)
    ELSE IF n < 10 THEN <<DigitChar(n)>>
    ELSE to_string(n \div 10) \o <<DigitChar(n % 10)>>

\* format!("{:02}", n): decimal, zero-padded to width 2
Pad2(n) == IF n >= 0 /\ n < 10 THEN <<"0">> \o to_string(n) ELSE to_string(n)

----------------------------------------------------------------------------
(* chrono::NaiveDate.                                                      *)

IsLeap(y) == (y % 4 = 0 /\ y % 100 # 0) \/ y % 400 = 0

DaysIn(y, m) ==
    IF m = 2 THEN (IF IsLeap(y) THEN 29 ELSE 28)
    ELSE IF m \in {4, 6, 9, 11} THEN 30 ELSE 31

NoDate == [year |-> 0, month |-> 0, day |-> 0]

\* NaiveDate::from_ymd_opt: None (NoDate) unless the triple is a calendar date
from_ymd_opt(y, m, d) ==
    IF m \in 1..12 /\ d \in 1..DaysIn(y, m)
    THEN [year |-> y, month |-> m, day |-> d]
    ELSE NoDate

----------------------------------------------------------------------------
(* lib.rs: resolve_template and normalize_filename.                        *)

resolve_template_no_day(tpl, d) ==
    Replace(Replace(tpl, TokY, to_string(d.year)), TokM, Pad2(d.month))

resolve_template_unpadded(tpl, d) ==
    Replace(Replace(Replace(tpl, TokY, to_string(d.year)),
                    TokM, to_string(d.month)),
            TokD, to_string(d.day))

\* the three replacements in turn, each on the text the one before returned
resolve_template(tpl, d) ==
    CHOOSE replaced \in
        { Replace(with_month, TokD, Pad2(d.day)) :
            with_month \in
                { Replace(with_year, TokM, Pad2(d.month)) :
                    with_year \in { Replace(tpl, TokY, to_string(d.year)) } } } :
        TRUE

normalize_filename_month_first(n, y, m) ==
    Replace(Replace(n, Pad2(m), TokM), to_string(y), TokY)

normalize_filename_first_year(n, y, m) ==
    LET at == { i \in 1..(Len(n) - Len(to_string(y)) + 1) :
                  SubSeq(n, i, i + Len(to_string(y)) - 1) = to_string(y) }
        first == CHOOSE i \in at : \A j \in at : i <= j
    IN  IF at = {} THEN Replace(n, Pad2(m), TokM)
        ELSE Replace(SubSeq(n, 1, first - 1) \o TokY
                       \o SubSeq(n, first + Len(to_string(y)), Len(n)),
                     Pad2(m), TokM)

normalize_filename(n, y, m) ==
    LET with_year == Replace(n, to_string(y), TokY)
        month_str == Pad2(m)
    IN  Replace(with_year, month_str, TokM)

----------------------------------------------------------------------------
(* std::path::Path as normalize_rel_path and extract_dates_from_template   *)
(* use it, on relative paths made of ordinary components and ".." (no      *)
(* root, no prefix, no ".").                                               *)

Max(S) == CHOOSE x \in S : \A y \in S : y <= x

\* std::path::is_separator: '/' on every target, '\' on Windows only
is_separator(c) == c = "/" \/ (platform = "windows" /\ c = "\\")

\* a path without its trailing separators
RECURSIVE TrimSeparators(_)
TrimSeparators(p) ==
    IF p # <<>> /\ is_separator(p[Len(p)])
    THEN TrimSeparators(SubSeq(p, 1, Len(p) - 1))
    ELSE p

\* index of the last separator of p, 0 when it has none
LastSeparator(p) ==
    LET seps == { i \in 1..Len(p) : is_separator(p[i]) }
    IN  IF seps = {} THEN 0 ELSE Max(seps)

\* Path::file_name().unwrap_or_default(): the last component, "" when there
\* is none or when the path ends in ".."
file_name(p) ==
    LET t == TrimSeparators(p)
        last == SubSeq(t, LastSeparator(t) + 1, Len(t))
    IN  IF last = <<".", ".">> THEN <<>> ELSE last

\* Path::parent() is Some: the path has a last component to strip
has_parent(p) == TrimSeparators(p) # <<>>

\* Path::parent(): the path without its last component
parent(p) ==
    LET t == TrimSeparators(p)
    IN  TrimSeparators(SubSeq(t, 1, LastSeparator(t) - 1))

normalize_rel_path_whole(rp, y, m) ==
    normalize_filename(Replace(rp, <<"\\">>, <<"/">>), y, m)

normalize_rel_path(rp, y, m) ==
    LET file == file_name(rp)
        normalized_file == normalize_filename(file, y, m)
    IN  IF has_parent(rp)
        THEN IF parent(rp) = <<>>
             THEN normalized_file
             ELSE Replace(parent(rp), <<"\\">>, <<"/">>) \o <<"/">> \o normalized_file
        ELSE normalized_file

----------------------------------------------------------------------------
(* The regex crate as extract_dates_from_template uses it.  A pattern text *)
(* is a sequence whose elements are characters or, once a placeholder has  *)
(* been replaced, the whole text of a capture group.                       *)

GroupY == "(?P<yyyy>\\d{4})"
GroupM == "(?P<mm>\\d{1,2})"
GroupD == "(?P<dd>\\d{1,2})"
Groups == {GroupY, GroupM, GroupD}

\* regex_syntax::is_meta_character
is_meta_character(c) ==
    c \in { "\\", ".", "+", "*", "?", "(", ")", "|", "[", "]", "{", "}",
            "^", "$", "#", "&", "-", "~" }

\* regex::escape: a backslash before every meta character
regex_escape(s) ==
    Concat([i \in 1..Len(s) |->
               IF is_meta_character(s[i]) THEN <<"\\", s[i]>> ELSE <<s[i]>>])

\* the escaped form of a placeholder, as the code writes it: r"\{yyyy\}"
Escaped(tok) == regex_escape(tok)

\* Regex::new fails on a pattern that names a capture group twice; nothing
\* else can fail, every other element being a character or an escaped one
regex_compiles(re_str) ==
    \A g \in Groups : Cardinality({ i \in 1..Len(re_str) : re_str[i] = g }) <= 1

\* the compiled pattern: one element per literal character or group
RECURSIVE regex_program(_)
regex_program(re_str) ==
    IF re_str = <<>> THEN <<>>
    ELSE IF Head(re_str) = "\\"
         THEN <<re_str[2]>> \o regex_program(SubSeq(re_str, 3, Len(re_str)))
         ELSE <<Head(re_str)>> \o regex_program(Tail(re_str))

\* \d on the ASCII digits
IsDigit(c) == c \in {"0", "1", "2", "3", "4", "5", "6", "7", "8", "9"}

AllDigits(text, i, n) ==
    i + n - 1 <= Len(text) /\ \A k \in i..(i + n - 1) : IsDigit(text[k])

NoCaps == [ok |-> FALSE, yyyy |-> <<>>, mm |-> <<>>, dd |-> <<>>]

\* match prog[k..] against text from index i on; a group of one or two digits
\* takes two when the rest then matches (greedy), else one
RECURSIVE match_here(_, _, _, _, _)
match_here(prog, k, text, i, caps) ==
    IF k > Len(prog) THEN [caps EXCEPT !.ok = TRUE]
    ELSE IF prog[k] = GroupY
         THEN IF AllDigits(text, i, 4)
              THEN match_here(prog, k + 1, text, i + 4,
                              [caps EXCEPT !.yyyy = SubSeq(text, i, i + 3)])
              ELSE NoCaps
    ELSE IF prog[k] \in {GroupM, GroupD}
         THEN LET with(n) ==
                      IF AllDigits(text, i, n)
                      THEN match_here(prog, k + 1, text, i + n,
                               IF prog[k] = GroupM
                               THEN [caps EXCEPT !.mm = SubSeq(text, i, i + n - 1)]
                               ELSE [caps EXCEPT !.dd = SubSeq(text, i, i + n - 1)])
                      ELSE NoCaps
              IN  IF with(2).ok THEN with(2) ELSE with(1)
    ELSE IF i <= Len(text) /\ text[i] = prog[k]
         THEN match_here(prog, k + 1, text, i + 1, caps)
         ELSE NoCaps

\* Regex::captures: the match that starts leftmost in text, wherever it starts
\* and ends
RECURSIVE captures_from(_, _, _)
captures_from(prog, text, i) ==
    IF i > Len(text) + 1 THEN NoCaps
    ELSE IF match_here(prog, 1, text, i, NoCaps).ok
         THEN match_here(prog, 1, text, i, NoCaps)
         ELSE captures_from(prog, text, i + 1)

captures(prog, text) == captures_from(prog, text, 1)

\* str::parse of a run of ASCII digits
RECURSIVE parse_int(_)
parse_int(s) ==
    IF s = <<>> THEN 0
    ELSE 10 * parse_int(SubSeq(s, 1, Len(s) - 1))
           + (CHOOSE d \in 0..9 : DigitChar(d) = s[Len(s)])

----------------------------------------------------------------------------
(* lib.rs: extract_dates_from_template.                                    *)

\* has_ph
has_ph(s) == Contains(s, TokY) \/ Contains(s, TokM) \/ Contains(s, TokD)

NoSegment == [found |-> FALSE, path |-> <<>>, name |-> <<>>]

\* the walk from the template's last component upwards; Path::pop fails
\* where the cursor has no parent
RECURSIVE seg_with_ph(_)
seg_with_ph(cur) ==
    IF file_name(cur) = <<>> THEN NoSegment
    ELSE IF has_ph(file_name(cur))
         THEN [found |-> TRUE, path |-> cur, name |-> file_name(cur)]
         ELSE IF has_parent(cur) THEN seg_with_ph(parent(cur))
              ELSE NoSegment

\* parent().unwrap_or_else(|| Path::new("."))
parent_or_dot(p) == IF has_parent(p) THEN parent(p) ELSE <<".">>

\* the directory to scan
scan_base_dir(tpl) ==
    IF seg_with_ph(tpl).found
    THEN parent_or_dot(seg_with_ph(tpl).path)
    ELSE parent_or_dot(parent_or_dot(tpl))

scan_folder_tpl_last(tpl) ==
    IF seg_with_ph(tpl).found
    THEN seg_with_ph(tpl).name
    ELSE file_name(tpl)

\* the pattern segment
scan_folder_tpl(tpl) ==
    IF seg_with_ph(tpl).found
    THEN seg_with_ph(tpl).name
    ELSE file_name(parent_or_dot(tpl))

\* re_str: the escaped segment with its placeholders turned into groups
build_re_str(ftpl) ==
    Replace(Replace(Replace(regex_escape(ftpl),
                            Escaped(TokY), <<GroupY>>),
                    Escaped(TokM), <<GroupM>>),
            Escaped(TokD), <<GroupD>>)

\* the date one directory entry yields, NoDate when it yields none
entry_date(prog, entry) ==
    LET caps == captures(prog, entry)
    IN  IF caps.ok /\ caps.yyyy # <<>> /\ caps.mm # <<>>
        THEN from_ymd_opt(parse_int(caps.yyyy), parse_int(caps.mm), 1)
        ELSE NoDate

\* NaiveDate's order
DateLE(a, b) ==
    \/ a.year < b.year
    \/ a.year = b.year /\ a.month < b.month
    \/ a.year = b.year /\ a.month = b.month /\ a.day <= b.day

\* the dates pushed for the entries of the set es, after dates.sort_unstable()
RECURSIVE sorted_dates(_, _)
sorted_dates(prog, es) ==
    LET hits == { e \in es : entry_date(prog, e) # NoDate }
    IN  IF hits = {} THEN <<>>
        ELSE LET first == CHOOSE e \in hits :
                              \A f \in hits :
                                  DateLE(entry_date(prog, e), entry_date(prog, f))
             IN  <<entry_date(prog, first)>> \o sorted_dates(prog, hits \ {first})

\* fs::read_dir(base_dir) is Ok: the directory is named and can be read
read_dir_ok(dir) == dir # <<>> /\ dir_readable

----------------------------------------------------------------------------
(* lib.rs: collect_files.  The tree below the root is a set of nodes       *)
(* [path, kind, meta_ok]: path is the sequence of names from the root,     *)
(* kind is "file" or "dir", meta_ok tells whether fs::metadata succeeds.   *)

\* std::path::MAIN_SEPARATOR
main_separator == IF platform = "windows" THEN "\\" ELSE "/"

\* the depth bound WalkDir ends with after .min_depth(1).max_depth(d):
\* max_depth() raises a maximum below the minimum to the minimum
walk_max_depth(d) == IF d < 1 THEN 1 ELSE d

\* the entries of the directory at path dir
Children(t, dir) ==
    { n \in t : Len(n.path) = Len(dir) + 1 /\ SubSeq(n.path, 1, Len(dir)) = dir }

\* the orders in which WalkDir can yield the entries below dir, down to depth
\* maxd: the entries of a directory in any order, each directory followed by
\* what is below it
RECURSIVE walk_below(_, _, _)
RECURSIVE walk_each(_, _, _)
walk_below(t, dir, maxd) ==
    IF Len(dir) >= maxd THEN {<<>>} ELSE walk_each(t, Children(t, dir), maxd)
walk_each(t, nodes, maxd) ==
    IF nodes = {} THEN {<<>>}
    ELSE UNION { { <<n>> \o below \o rest :
                      below \in IF n.kind = "dir" THEN walk_below(t, n.path, maxd)
                                ELSE {<<>>},
                      rest \in walk_each(t, nodes \ {n}, maxd) } :
                 n \in nodes }

\* WalkDir::new(root).min_depth(1).max_depth(d) with the errors dropped: a
\* root that is missing or is a file yields nothing at depth 1 or more
walk(kind, t, d) ==
    IF kind = "dir" THEN walk_below(t, <<>>, walk_max_depth(d)) ELSE {<<>>}

\* date.format("%Y-%m"): the year on four digits, the month on two
format_year_month(d) ==
    (IF d.year < 1000 THEN <<"0">> ELSE <<>>)
      \o (IF d.year < 100 THEN <<"0">> ELSE <<>>)
      \o (IF d.year < 10 THEN <<"0">> ELSE <<>>)
      \o to_string(d.year) \o <<"-">> \o Pad2(d.month)

\* the FileInfo of one walked file (size and time stamps left out)
file_info(n, d) ==
    LET rel == Replace(JoinWith(n.path, main_separator), <<"\\">>, <<"/">>)
    IN  [ actual_name |-> n.path[Len(n.path)],
          date_str |-> format_year_month(d),
          rel_path |-> rel,
          normalized_rel_path |-> normalize_rel_path(rel, d.year, d.month) ]

\* the loop body over one walk order: files only, those without metadata skipped
RECURSIVE collect_from(_, _)
collect_from(w, d) ==
    IF w = <<>> THEN <<>>
    ELSE (IF Head(w).kind = "file" /\ Head(w).meta_ok
          THEN <<file_info(Head(w), d)>> ELSE <<>>)
           \o collect_from(Tail(w), d)

----------------------------------------------------------------------------
(* main.rs: the --dates argument.                                          *)

\* str::split(','): the pieces between the commas, one piece for a text
\* without a comma (the empty text included)
RECURSIVE split(_, _)
split(s, sep) ==
    LET at == { i \in 1..Len(s) : s[i] = sep }
    IN  IF at = {} THEN <<s>>
        ELSE LET i == CHOOSE j \in at : \A k \in at : j <= k
             IN  <<SubSeq(s, 1, i - 1)>> \o split(SubSeq(s, i + 1, Len(s)), sep)

\* str::trim_start on the blank
RECURSIVE trim_start(_)
trim_start(s) == IF s # <<>> /\ Head(s) = " " THEN trim_start(Tail(s)) ELSE s

\* str::trim_end on the blank
RECURSIVE trim_end(_)
trim_end(s) ==
    IF s # <<>> /\ s[Len(s)] = " " THEN trim_end(SubSeq(s, 1, Len(s) - 1)) ELSE s

\* str::trim
trim(s) == trim_end(trim_start(s))

\* chrono's scan::number(s, 1, max): the length of the run of at least one and
\* at most max digits that s starts with, 0 when s starts with no digit
RECURSIVE scan_number(_, _)
scan_number(s, max) ==
    IF max = 0 \/ s = <<>> \/ ~IsDigit(Head(s)) THEN 0
    ELSE 1 + scan_number(Tail(s), max - 1)

NoParse == [ok |-> FALSE, value |-> 0, rest |-> <<>>]

\* chrono's parse of one numeric item of width w: blanks before it are
\* skipped, then 1..w digits are taken, as many as there are
parse_numeric(s, w) ==
    LET t == trim_start(s)
        n == scan_number(t, w)
    IN  IF n = 0 THEN NoParse
        ELSE [ok |-> TRUE, value |-> parse_int(SubSeq(t, 1, n)),
              rest |-> SubSeq(t, n + 1, Len(t))]

\* %Y: a year written with a sign may have any number of digits, one written
\* without has at most four
parse_year(s) ==
    LET t == trim_start(s)
    IN  IF t # <<>> /\ Head(t) \in {"+", "-"}
        THEN LET n == scan_number(Tail(t), Len(t))
                 v == parse_int(SubSeq(t, 2, n + 1))
             IN  IF n = 0 THEN NoParse
                 ELSE [ok |-> TRUE, value |-> IF Head(t) = "-" THEN 0 - v ELSE v,
                       rest |-> SubSeq(t, n + 2, Len(t))]
        ELSE parse_numeric(t, 4)

\* the literal "-" of the format
parse_dash(s) == s # <<>> /\ Head(s) = "-"

\* NaiveDate::parse_from_str(s, "%Y-%m-%d"): NoDate for an Err
parse_from_str(s) ==
    LET y == parse_year(s)
        m == parse_numeric(Tail(y.rest), 2)
        d == parse_numeric(Tail(m.rest), 2)
    IN  IF ~y.ok \/ ~parse_dash(y.rest) THEN NoDate
        ELSE IF ~m.ok \/ ~parse_dash(m.rest) THEN NoDate
        ELSE IF ~d.ok \/ d.rest # <<>> THEN NoDate
        ELSE from_ymd_opt(y.value, m.value, d.value)

\* the periods of the --dates argument: the entries that parse, in the order
\* in which they are written
RECURSIVE filter_map_dates(_)
filter_map_dates(entries) ==
    IF entries = <<>> THEN <<>>
    ELSE (IF parse_from_str(trim(Head(entries))) # NoDate
          THEN <<parse_from_str(trim(Head(entries)))>> ELSE <<>>)
           \o filter_map_dates(Tail(entries))

parse_dates_arg(date_str) == filter_map_dates(split(date_str, ","))

----------------------------------------------------------------------------
(* main.rs: discovery.  Its own extract_dates_from_template takes the      *)
(* parent of the template's last component as pattern segment and matches  *)
(* the month and the day with \d+.                                         *)

MainGroupM == "(?P<mm>\\d+)"
MainGroupD == "(?P<dd>\\d+)"

\* the length of the run of digits of text that starts at index i
RECURSIVE digit_run(_, _)
digit_run(text, i) ==
    IF i <= Len(text) /\ IsDigit(text[i]) THEN 1 + digit_run(text, i + 1) ELSE 0

\* match prog[k..] against text from index i on; \d+ takes the longest run of
\* digits with which the rest matches
RECURSIVE main_match_here(_, _, _, _, _)
RECURSIVE main_match_plus(_, _, _, _, _, _)
main_match_here(prog, k, text, i, caps) ==
    IF k > Len(prog) THEN [caps EXCEPT !.ok = TRUE]
    ELSE IF prog[k] = GroupY
         THEN IF AllDigits(text, i, 4)
              THEN main_match_here(prog, k + 1, text, i + 4,
                                   [caps EXCEPT !.yyyy = SubSeq(text, i, i + 3)])
              ELSE NoCaps
    ELSE IF prog[k] \in {MainGroupM, MainGroupD}
         THEN main_match_plus(prog, k, text, i, caps, digit_run(text, i))
    ELSE IF i <= Len(text) /\ text[i] = prog[k]
         THEN main_match_here(prog, k + 1, text, i + 1, caps)
         ELSE NoCaps
main_match_plus(prog, k, text, i, caps, n) ==
    IF n < 1 THEN NoCaps
    ELSE LET r == main_match_here(prog, k + 1, text, i + n,
                      IF prog[k] = MainGroupM
                      THEN [caps EXCEPT !.mm = SubSeq(text, i, i + n - 1)]
                      ELSE [caps EXCEPT !.dd = SubSeq(text, i, i + n - 1)])
         IN  IF r.ok THEN r ELSE main_match_plus(prog, k, text, i, caps, n - 1)

\* Regex::captures: the match that starts leftmost in text
RECURSIVE main_captures_from(_, _, _)
main_captures_from(prog, text, i) ==
    IF i > Len(text) + 1 THEN NoCaps
    ELSE IF main_match_here(prog, 1, text, i, NoCaps).ok
         THEN main_match_here(prog, 1, text, i, NoCaps)
         ELSE main_captures_from(prog, text, i + 1)

\* re_str of main.rs
main_build_re_str(ftpl) ==
    Replace(Replace(Replace(regex_escape(ftpl),
                            Escaped(TokY), <<GroupY>>),
                    Escaped(TokM), <<MainGroupM>>),
            Escaped(TokD), <<MainGroupD>>)

\* Regex::new fails on a pattern that names a capture group twice
main_regex_compiles(re_str) ==
    \A g \in {GroupY, MainGroupM, MainGroupD} :
        Cardinality({ i \in 1..Len(re_str) : re_str[i] = g }) <= 1

\* the date one directory entry yields, NoDate when it yields none
main_entry_date(prog, entry) ==
    LET caps == main_captures_from(prog, entry, 1)
    IN  IF caps.ok /\ caps.yyyy # <<>> /\ caps.mm # <<>>
        THEN from_ymd_opt(parse_int(caps.yyyy), parse_int(caps.mm), 1)
        ELSE NoDate

\* the dates pushed for the entries of the set es, after dates.sort_unstable()
RECURSIVE main_sorted_dates(_, _)
main_sorted_dates(prog, es) ==
    LET hits == { e \in es : main_entry_date(prog, e) # NoDate }
    IN  IF hits = {} THEN <<>>
        ELSE LET first == CHOOSE e \in hits :
                              \A f \in hits :
                                  DateLE(main_entry_date(prog, e), main_entry_date(prog, f))
             IN  <<main_entry_date(prog, first)>> \o main_sorted_dates(prog, hits \ {first})

\* main_dir.file_name().unwrap() panics where main_dir has no last component,
\* and Regex::new(..).expect(..) where the pattern does not compile
main_extract_panics(tpl) ==
    \/ file_name(parent_or_dot(tpl)) = <<>>
    \/ ~main_regex_compiles(main_build_re_str(file_name(parent_or_dot(tpl))))

\* extract_dates_from_template of main.rs on the entries es of the directory
\* it scans (none when the directory cannot be read)
main_extract_dates_from_template(tpl, es) ==
    LET main_dir == parent_or_dot(tpl)
        ftpl == file_name(main_dir)
    IN  main_sorted_dates(regex_program(main_build_re_str(ftpl)), es)

----------------------------------------------------------------------------
(* main.rs: collect_files and the period loop.  main.rs has its own copies *)
(* of resolve_template and normalize_filename, the same text as lib.rs;    *)
(* its collect_files walks to depth 2 and returns a map keyed by the       *)
(* normalized file name.                                                   *)

\* HashMap::insert: the value of an existing key is replaced
insert(map, key, value) ==
    [k \in DOMAIN map \cup {key} |-> IF k = key THEN value ELSE map[k]]

\* the FileInfo of main.rs for one walked file (size and time stamps left out)
main_file_info(n, d) ==
    [ actual_name |-> n.path[Len(n.path)],
      date_str |-> format_year_month(d) ]

\* the loop body over one walk order: each file with metadata is inserted
\* under its normalized file name
RECURSIVE main_collect_from(_, _, _)
main_collect_from(w, d, map) ==
    IF w = <<>> THEN map
    ELSE main_collect_from(
             Tail(w), d,
             IF Head(w).kind = "file" /\ Head(w).meta_ok
             THEN insert(map,
                         normalize_filename(Head(w).path[Len(Head(w).path)],
                                            d.year, d.month),
                         main_file_info(Head(w), d))
             ELSE map)

\* the maps collect_files of main.rs can return, one per walk order
main_collect_files(kind, t, d) ==
    { main_collect_from(w, d, <<>>) : w \in walk(kind, t, 2) }

\* all.entry(norm_name).or_default().push(info) for every entry of files
push_all(grouped, files) ==
    [k \in DOMAIN grouped \cup DOMAIN files |->
        (IF k \in DOMAIN grouped THEN grouped[k] ELSE <<>>)
          \o (IF k \in DOMAIN files THEN <<files[k]>> ELSE <<>>)]

\* the orders in which a map can iterate over the keys of the set ks
RECURSIVE Orders(_)
Orders(ks) ==
    IF ks = {} THEN {<<>>}
    ELSE UNION { { <<k>> \o rest : rest \in Orders(ks \ {k}) } : k \in ks }

\* the CSV rows of one key: its records in the order of the list
csv_rows_of(key, infos) ==
    [i \in 1..Len(infos) |->
        [norm_name |-> key, date_str |-> infos[i].date_str,
         actual_name |-> infos[i].actual_name]]

\* the rows of the CSV output for the keys in the order ks
RECURSIVE write_csv(_, _)
write_csv(grouped, ks) ==
    IF ks = <<>> THEN <<>>
    ELSE csv_rows_of(Head(ks), grouped[Head(ks)]) \o write_csv(grouped, Tail(ks))

\* the order of two texts as str compares them (by code point)
CharRank(c) ==
    CHOOSE i \in 1..17 :
        <<" ", "-", "/", "0", "1", "2", "3", "4", "5", "8", "_",
          "a", "m", "n", "s", "{", "}">>[i] = c

RECURSIVE TextLE(_, _)
TextLE(a, b) ==
    IF a = <<>> THEN TRUE
    ELSE IF b = <<>> THEN FALSE
    ELSE IF Head(a) = Head(b) THEN TextLE(Tail(a), Tail(b))
    ELSE CharRank(Head(a)) < CharRank(Head(b))

\* infos.sort_by_key(|i| i.date_str.clone()): a stable sort by date_str
RECURSIVE sort_by_date_str(_)
sort_by_date_str(infos) ==
    IF infos = <<>> THEN <<>>
    ELSE LET least == CHOOSE i \in 1..Len(infos) :
                          /\ \A j \in 1..Len(infos) :
                                 TextLE(infos[i].date_str, infos[j].date_str)
                          /\ \A j \in 1..(i - 1) :
                                 infos[j].date_str # infos[i].date_str
         IN  <<infos[least]>>
               \o sort_by_date_str(SubSeq(infos, 1, least - 1)
                                     \o SubSeq(infos, least + 1, Len(infos)))

\* write_html_report: one section per key in the order ks, its labels sorted
RECURSIVE write_html_report(_, _)
write_html_report(grouped, ks) ==
    IF ks = <<>> THEN <<>>
    ELSE LET infos == sort_by_date_str(grouped[Head(ks)])
         IN  <<[norm_name |-> Head(ks),
                dates |-> [i \in 1..Len(infos) |-> infos[i].date_str]]>>
               \o write_html_report(grouped, Tail(ks))

----------------------------------------------------------------------------
(* Inputs of the normalisation calls.                                      *)

Platforms == {"unix", "windows"}
Years     == {2024, 2012}
Months    == {2, 8, 12}

NamePieces ==
    { <<"2", "0", "2", "4">>, <<"2", "0", "1", "2">>,
      <<"0">>, <<"1">>, <<"2">>, <<"8">>, <<"a">>,
      TokY, TokM }

Names == TextsOf(NamePieces, MaxNamePieces)

\* names of the segments of a relative path: directories and files named
\* after a year, a month, or neither
SegNames ==
    { <<"2", "0", "2", "4">>, <<"0", "8">>, <<"1", "2">>, <<"a">>,
      <<"a", "0", "8", "-", "2", "0", "2", "4">> }

Separators == {"/", "\\"}

\* relative paths of 1..MaxSegments segments, written with one separator
RelPaths ==
    { JoinWith(segs, sep) :
        segs \in UNION { [1..k -> SegNames] : k \in 1..MaxSegments },
        sep \in Separators }

----------------------------------------------------------------------------
(* The variables a specification does not use keep these values.           *)

NormIdle ==
    name = <<>> /\ normalized = <<>> /\ restored = <<>> /\ renormalized = <<>>
RelIdle  == rel_path = <<>> /\ normalized_rel_path = <<>>
ResIdle  == resolved = <<>>
DiscIdle ==
    /\ dir_readable = FALSE
    /\ dir_entries = {}
    /\ base_dir = <<>>
    /\ folder_tpl = <<>>
    /\ dates = <<>>
CollIdle == root_kind = "missing" /\ tree = {} /\ max_depth = 0 /\ out = <<>>
SelIdle  == cursor = <<>>
NoArg    == [given |-> FALSE, text |-> <<>>]
MainIdle ==
    /\ args_dates = NoArg
    /\ roots = <<>>
    /\ main_dates = <<>>
    /\ next_date = 1
    /\ all = <<>>
    /\ key_order = <<>>
    /\ csv_rows = <<>>
    /\ html_sections = <<>>
IdIdle   == id_input = <<>> /\ id_hash = <<>> /\ id_result = <<>>
NoTime   == [available |-> FALSE]
StampIdle ==
    /\ created_at = NoTime
    /\ modified_at = NoTime
    /\ created = <<>>
    /\ modified = <<>>
MoreIdle == SelIdle /\ MainIdle /\ IdIdle /\ StampIdle

----------------------------------------------------------------------------
(* Specification SpecNormalize: normalize_filename on a file name, then    *)
(* resolve_template on its result with the same year and month.            *)

InitNormalize ==
    /\ platform \in Platforms
    /\ pc = "start"
    /\ name \in Names
    /\ yyyy \in Years
    /\ mm \in Months
    /\ normalized = <<>>
    /\ restored = <<>>
    /\ renormalized = <<>>
    /\ path_template = <<>>
    /\ date = NoDate
    /\ RelIdle /\ ResIdle /\ DiscIdle /\ CollIdle
    /\ MoreIdle

NormalizeFilename ==
    /\ pc = "start"
    /\ normalized' = normalize_filename(name, yyyy, mm)
    /\ pc' = "normalized"
    /\ UNCHANGED <<platform, name, yyyy, mm, restored, renormalized, relVars,
                   resVars, discVars, collVars>>
    /\ UNCHANGED moreVars

ResolveNormalized ==
    /\ pc = "normalized"
    /\ restored' = resolve_template(normalized, from_ymd_opt(yyyy, mm, 1))
    /\ pc' = "restored"
    /\ UNCHANGED <<platform, name, yyyy, mm, normalized, renormalized, relVars,
                   resVars, discVars, collVars>>
    /\ UNCHANGED moreVars

\* normalize_filename once more, on its own result
NormalizeAgain ==
    /\ pc = "normalized"
    /\ renormalized' = normalize_filename(normalized, yyyy, mm)
    /\ pc' = "renormalized"
    /\ UNCHANGED <<platform, name, yyyy, mm, normalized, restored, relVars,
                   resVars, discVars, collVars>>
    /\ UNCHANGED moreVars

NextNormalize == NormalizeFilename \/ ResolveNormalized \/ NormalizeAgain

SpecNormalize == InitNormalize /\ [][NextNormalize]_vars

----------------------------------------------------------------------------
(* Claims on normalize_filename (checked under SpecNormalize).             *)

\* the positions at which pat occurs in s, overlapping ones included
Occurrences(s, pat) ==
    { i \in 1..(Len(s) - Len(pat) + 1) : SubSeq(s, i, i + Len(pat) - 1) = pat }

Min(S) == CHOOSE x \in S : \A y \in S : x <= y

\* the occurrences a substitution of every occurrence takes, first to last:
\* the first one at or after from, then those that start after its end
RECURSIVE TakenFrom(_, _, _)
TakenFrom(occ, len, from) ==
    LET later == { i \in occ : i >= from }
    IN  IF later = {} THEN {}
        ELSE {Min(later)} \cup TakenFrom(occ, len, Min(later) + len)

Taken(s, pat) == TakenFrom(Occurrences(s, pat), Len(pat), 1)

\* s with each taken occurrence of pat replaced by tok, built position by position
Substituted(s, pat, tok) ==
    LET taken == Taken(s, pat)
        at(i) == IF i \in taken THEN tok
                 ELSE IF \E j \in taken : j < i /\ i < j + Len(pat) THEN <<>>
                 ELSE <<s[i]>>
    IN  Concat([i \in 1..Len(s) |-> at(i)])

Overlap(i, leni, j, lenj) == i < j + lenj /\ j < i + leni

\* C1: normalize_filename(name, year, month) is the two-pass substitution: every
\* occurrence of the decimal year becomes {yyyy}, then every occurrence of the
\* zero-padded month in that result becomes {mm}; each year occurrence taken
\* yields a {yyyy} even where month digits overlap it, and a name that contains
\* neither substring is returned unchanged.
C1_TwoPassSubstitution ==
    pc # "start" =>
        /\ normalized =
              Substituted(Substituted(name, to_string(yyyy), TokY), Pad2(mm), TokM)
        /\ Cardinality(Occurrences(normalized, TokY)) =
              Cardinality(Occurrences(name, TokY))
                + Cardinality(Taken(name, to_string(yyyy)))
        /\ (~Contains(name, to_string(yyyy)) /\ ~Contains(name, Pad2(mm)))
              => normalized = name

\* a name in which an occurrence of the month digits overlaps an occurrence of
\* the year has been normalized, and the year was substituted
C1_Witness ==
    /\ pc = "normalized"
    /\ \E i \in Taken(name, to_string(yyyy)) :
          \E j \in Occurrences(name, Pad2(mm)) :
              Overlap(i, Len(to_string(yyyy)), j, 2)
    /\ Contains(normalized, TokY)
    /\ ~Contains(normalized, TokM)

\* the name holds the year digits at most once and the month digits at most
\* once, and the two do not overlap: no digit run beside the date's own
NoCoincidentalRuns(n, y, m) ==
    /\ Cardinality(Occurrences(n, to_string(y))) <= 1
    /\ Cardinality(Occurrences(n, Pad2(m))) <= 1
    /\ \A i \in Occurrences(n, to_string(y)) :
          \A j \in Occurrences(n, Pad2(m)) :
              ~Overlap(i, Len(to_string(y)), j, 2)

HasToken(s) == Contains(s, TokY) \/ Contains(s, TokM)

----------------------------------------------------------------------------
(* Specification SpecRelPath: normalize_rel_path on a relative path.       *)

InitRelPath ==
    /\ platform \in Platforms
    /\ pc = "start"
    /\ yyyy \in Years
    /\ mm \in Months
    /\ rel_path \in RelPaths
    /\ normalized_rel_path = <<>>
    /\ path_template = <<>>
    /\ date = NoDate
    /\ NormIdle /\ ResIdle /\ DiscIdle /\ CollIdle
    /\ MoreIdle

NormalizeRelPath ==
    /\ pc = "start"
    /\ normalized_rel_path' = normalize_rel_path(rel_path, yyyy, mm)
    /\ pc' = "rel_normalized"
    /\ UNCHANGED <<platform, normVars, rel_path, resVars, discVars, collVars>>
    /\ UNCHANGED moreVars

NextRelPath == NormalizeRelPath

SpecRelPath == InitRelPath /\ [][NextRelPath]_vars

----------------------------------------------------------------------------
(* Claims on normalize_rel_path (checked under SpecRelPath).               *)

\* the segments of s, cut at the characters of the set seps
RECURSIVE SplitAt(_, _)
SplitAt(s, seps) ==
    LET cuts == { i \in 1..Len(s) : s[i] \in seps }
    IN  IF cuts = {} THEN <<s>>
        ELSE <<SubSeq(s, 1, Min(cuts) - 1)>>
                \o SplitAt(SubSeq(s, Min(cuts) + 1, Len(s)), seps)

\* the segments of a path as the build target's std::path reads it
PlatformSegments(p) ==
    SplitAt(p, IF platform = "windows" THEN {"/", "\\"} ELSE {"/"})

Front(s) == SubSeq(s, 1, Len(s) - 1)
Last(s)  == s[Len(s)]

C4_CanonicalSeparator ==
    pc = "rel_normalized" =>
        LET segs == SplitAt(rel_path, {"/", "\\"})
        IN  /\ normalized_rel_path =
                 JoinWith(Front(segs) \o <<normalize_filename(Last(segs), yyyy, mm)>>,
                          "/")
            /\ \A i \in 1..Len(normalized_rel_path) : normalized_rel_path[i] # "\\"

----------------------------------------------------------------------------
(* Specification SpecResolve: resolve_template on a template and a period. *)

\* literal text, the three tokens, and halves of tokens that join with a
\* neighbour's braces
TemplatePieces ==
    { TokY, TokM, TokD, <<"a">>, <<"/">>, <<"0", "8">>,
      <<"{", "m">>, <<"m", "}">> }

ResolveTemplates == TextsOf(TemplatePieces, MaxTemplatePieces)

ResolveDates ==
    { from_ymd_opt(2024, 8, 1), from_ymd_opt(2024, 12, 5),
      from_ymd_opt(2025, 1, 31) }

InitResolve ==
    /\ platform \in Platforms
    /\ pc = "start"
    /\ yyyy = 0
    /\ mm = 0
    /\ path_template \in ResolveTemplates
    /\ date \in ResolveDates
    /\ resolved = <<>>
    /\ NormIdle /\ RelIdle /\ DiscIdle /\ CollIdle
    /\ MoreIdle

ResolveTemplate ==
    /\ pc = "start"
    /\ resolved' = resolve_template(path_template, date)
    /\ pc' = "resolved"
    /\ UNCHANGED <<platform, normVars, relVars, path_template, date,
                   discVars, collVars>>
    /\ UNCHANGED moreVars

NextResolve == ResolveTemplate

SpecResolve == InitResolve /\ [][NextResolve]_vars

----------------------------------------------------------------------------
(* Claims on resolve_template (checked under SpecResolve).                 *)

\* n written with exactly four, and with exactly two, decimal digits
FourDigits(n) ==
    <<DigitChar((n \div 1000) % 10), DigitChar((n \div 100) % 10),
      DigitChar((n \div 10) % 10), DigitChar(n % 10)>>
TwoDigits(n) == <<DigitChar((n \div 10) % 10), DigitChar(n % 10)>>

HasPlaceholder(s) == Contains(s, TokY) \/ Contains(s, TokM) \/ Contains(s, TokD)

\* s is a text: a finite sequence of characters
IsText(s) == DOMAIN s = 1..Len(s) /\ \A i \in 1..Len(s) : s[i] \in STRING

----------------------------------------------------------------------------
(* Specification SpecDiscover: extract_dates_from_template on a template   *)
(* and a scan directory.                                                   *)

\* pattern segments: year and month; year, month and day; a repeated token;
\* a year alone; no placeholder
PatternSegments ==
    { <<"r">> \o TokY \o <<"_">> \o TokM,
      <<"r">> \o TokY \o <<"_">> \o TokM \o <<"_">> \o TokD,
      <<"r">> \o TokY \o <<"_">> \o TokM \o <<"_">> \o TokY,
      <<"r">> \o TokY,
      <<"r">> }

\* templates b/<segment>/M and b/<segment>, and b/../M
DiscoverTemplates ==
    { <<"b", "/">> \o seg \o tail :
        seg \in PatternSegments, tail \in { <<>>, <<"/", "M">> } }
      \cup { <<"b", "/", ".", ".", "/", "M">> }

\* names a scan directory may hold: matching ones (2-digit and 1-digit
\* month, with and without a day), ones with a month or a day that is no
\* calendar date, ones with text before or after a match, and others
EntryNames ==
    { <<"r", "2", "0", "2", "4", "_", "0", "8">>,
      <<"r", "2", "0", "2", "4", "_", "1", "2">>,
      <<"r", "2", "0", "2", "5", "_", "0", "1">>,
      <<"r", "2", "0", "2", "4", "_", "8">>,
      <<"r", "2", "0", "2", "4", "_", "1", "3">>,
      <<"x", "r", "2", "0", "2", "4", "_", "0", "8">>,
      <<"r", "2", "0", "2", "4", "_", "0", "8", "x">>,
      <<"r", "x", "_", "0", "8">>,
      <<"r", "2", "0", "2", "4", "_", "0", "2", "_", "3", "0">>,
      <<"r", "2", "0", "2", "4", "_", "1", "2", "_", "0", "5">>,
      <<"x">> }

Listings == { es \in SUBSET EntryNames : Cardinality(es) <= MaxEntries }

InitDiscover ==
    /\ platform \in Platforms
    /\ pc = "start"
    /\ yyyy = 0
    /\ mm = 0
    /\ path_template \in DiscoverTemplates
    /\ date = NoDate
    /\ dir_readable \in BOOLEAN
    /\ dir_entries \in Listings
    /\ dir_readable = FALSE => dir_entries = {}
    /\ base_dir = <<>>
    /\ folder_tpl = <<>>
    /\ dates = <<>>
    /\ NormIdle /\ RelIdle /\ ResIdle /\ CollIdle
    /\ MoreIdle

\* the whole call; Regex::new(..).expect(..) panics where the pattern does
\* not compile
ExtractDates ==
    /\ pc = "start"
    /\ base_dir' = scan_base_dir(path_template)
    /\ folder_tpl' = scan_folder_tpl(path_template)
    /\ LET re_str == build_re_str(scan_folder_tpl(path_template))
       IN  IF ~regex_compiles(re_str)
           THEN /\ pc' = "panicked"
                /\ dates' = <<>>
           ELSE /\ pc' = "discovered"
                /\ dates' = IF read_dir_ok(scan_base_dir(path_template))
                            THEN sorted_dates(regex_program(re_str), dir_entries)
                            ELSE <<>>
    /\ UNCHANGED <<platform, normVars, relVars, resVars, dir_readable,
                   dir_entries, collVars>>
    /\ UNCHANGED moreVars

NextDiscover == ExtractDates

SpecDiscover == InitDiscover /\ [][NextDiscover]_vars

----------------------------------------------------------------------------
(* Claims on extract_dates_from_template (checked under SpecDiscover).     *)

\* the runs of n digits in text
DigitRuns(text, n) ==
    { SubSeq(text, i, i + n - 1) : i \in { j \in 1..Len(text) : AllDigits(text, j, n) } }

\* the digit strings a placeholder of the segment can stand for in an entry
\* (the empty text where the segment has no such placeholder)
YearTexts(ftpl, e)  == IF Contains(ftpl, TokY) THEN DigitRuns(e, 4) ELSE {<<>>}
MonthTexts(ftpl, e) ==
    IF Contains(ftpl, TokM) THEN DigitRuns(e, 1) \cup DigitRuns(e, 2) ELSE {<<>>}
DayTexts(ftpl, e) ==
    IF Contains(ftpl, TokD) THEN DigitRuns(e, 1) \cup DigitRuns(e, 2) ELSE {<<>>}

\* the segment with its placeholders written out
Instance(ftpl, ys, ms, ds) ==
    Substituted(Substituted(Substituted(ftpl, TokY, ys), TokM, ms), TokD, ds)

\* the whole name of the entry is an instance of the segment
FullMatch(ftpl, e) ==
    \E ys \in YearTexts(ftpl, e), ms \in MonthTexts(ftpl, e), ds \in DayTexts(ftpl, e) :
        Instance(ftpl, ys, ms, ds) = e

\* the calendar dates the entry is a correctly formatted name of
Periods(ftpl, e) ==
    IF ~(Contains(ftpl, TokY) /\ Contains(ftpl, TokM)) THEN {}
    ELSE { from_ymd_opt(parse_int(t[1]), parse_int(t[2]),
                        IF Contains(ftpl, TokD) THEN parse_int(t[3]) ELSE 1) :
             t \in { u \in YearTexts(ftpl, e) \X MonthTexts(ftpl, e) \X DayTexts(ftpl, e) :
                       Instance(ftpl, u[1], u[2], u[3]) = e } } \ {NoDate}

WellFormed(ftpl, e) == Periods(ftpl, e) # {}

IsAscending(ds) == \A i \in 1..(Len(ds) - 1) : DateLE(ds[i], ds[i + 1])

YearMonth(d) == <<d.year, d.month>>

\* C5: where the scan directory holds N correctly formatted names and M others,
\* the call returns without an error exactly N periods, in ascending order, the
\* months of the N names and none for the M others.
C5_ExactlyTheWellFormed ==
    (pc # "start" /\ read_dir_ok(base_dir)) =>
        /\ pc = "discovered"
        /\ IsAscending(dates)
        /\ Len(dates) = Cardinality({ e \in dir_entries : WellFormed(folder_tpl, e) })
        /\ { YearMonth(dates[i]) : i \in 1..Len(dates) } =
              { YearMonth(d) : d \in UNION { Periods(folder_tpl, e) : e \in dir_entries } }

\* C6: only an entry whose whole name matches the pattern yields a period, so
\* there are no more periods than entries matching in full.
C6_WholeNameMatches ==
    pc = "discovered" =>
        Len(dates) <= Cardinality({ e \in dir_entries : FullMatch(folder_tpl, e) })

\* the date an entry stands for, with the day its name holds where the
\* pattern has {dd} and day 1 where it has not; NoDate if that is no date
DateWithDay(prog, e) ==
    LET caps == captures(prog, e)
    IN  IF caps.ok /\ caps.yyyy # <<>> /\ caps.mm # <<>>
        THEN from_ymd_opt(parse_int(caps.yyyy), parse_int(caps.mm),
                          IF caps.dd # <<>> THEN parse_int(caps.dd) ELSE 1)
        ELSE NoDate

\* C7: the periods returned are those of the matching entries with the day
\* captured from the name (day 1 without {dd}); an entry whose year, month and
\* day are no calendar date yields none.
C7_DayCaptured ==
    (pc = "discovered" /\ read_dir_ok(base_dir)) =>
        LET prog == regex_program(build_re_str(folder_tpl))
            want == { e \in dir_entries : DateWithDay(prog, e) # NoDate }
        IN  /\ Len(dates) = Cardinality(want)
            /\ \A e \in want :
                  Cardinality({ i \in 1..Len(dates) : dates[i] = DateWithDay(prog, e) })
                    = Cardinality({ f \in want : DateWithDay(prog, f) = DateWithDay(prog, e) })

\* C8: where the scan directory does not exist or cannot be read, the call
\* returns the empty list and does not fail.
C8_UnreadableGivesEmpty ==
    (pc # "start" /\ ~read_dir_ok(base_dir)) =>
        (pc = "discovered" /\ dates = <<>>)

----------------------------------------------------------------------------
(* Specification SpecCollect: collect_files on a root, a period and a      *)
(* depth bound.                                                            *)

\* directory s/08/s/.. below the root, one file per level: a08 or 2024
DirName(j)  == IF j % 2 = 0 THEN <<"0", "8">> ELSE <<"s">>
FileName(j) == IF j % 2 = 0 THEN <<"2", "0", "2", "4">> ELSE <<"a", "0", "8">>

DirPath(j)  == [i \in 1..j |-> DirName(i)]
FilePath(j) == DirPath(j - 1) \o <<FileName(j)>>

\* directories down to depth k, the files at the depths of F, those of U
\* without readable metadata
TreeOf(k, F, U) ==
    { [path |-> DirPath(j), kind |-> "dir", meta_ok |-> TRUE] : j \in 1..k }
      \cup { [path |-> FilePath(j), kind |-> "file", meta_ok |-> j \notin U] : j \in F }

\* a file of the root whose name holds a backslash: a name a Unix file
\* system allows and a Windows one does not
BackslashFile ==
    [path |-> << <<"b", "\\", "a", "0", "8">> >>, kind |-> "file", meta_ok |-> TRUE]

Trees ==
    { TreeOf(k, F, U) \cup X :
        k \in 0..(MaxTreeDepth - 1),
        F \in SUBSET (1..MaxTreeDepth),
        U \in SUBSET (1..MaxTreeDepth),
        X \in { {}, {BackslashFile} } }

WellFormedTree(t) ==
    /\ \A n \in t : n.kind = "file" => Len(n.path) = 1 \/
            [path |-> SubSeq(n.path, 1, Len(n.path) - 1), kind |-> "dir",
             meta_ok |-> TRUE] \in t
    /\ \A n \in t : n.kind = "dir" => n.meta_ok

CollectDates == { from_ymd_opt(2024, 8, 1), from_ymd_opt(2024, 12, 5) }

InitCollect ==
    /\ platform \in Platforms
    /\ pc = "start"
    /\ yyyy = 0
    /\ mm = 0
    /\ path_template = <<>>
    /\ date \in CollectDates
    /\ root_kind \in {"dir", "file", "missing"}
    /\ tree \in { t \in Trees : WellFormedTree(t) }
    /\ root_kind # "dir" => tree = {}
    /\ platform = "windows" => BackslashFile \notin tree
    /\ max_depth \in 0..MaxDepthArg
    /\ out = <<>>
    /\ NormIdle /\ RelIdle /\ ResIdle /\ DiscIdle
    /\ MoreIdle

CollectFiles ==
    /\ pc = "start"
    /\ \E w \in walk(root_kind, tree, max_depth) : out' = collect_from(w, date)
    /\ pc' = "collected"
    /\ UNCHANGED <<platform, normVars, relVars, resVars, discVars,
                   root_kind, tree, max_depth>>
    /\ UNCHANGED moreVars

NextCollect == CollectFiles

SpecCollect == InitCollect /\ [][NextCollect]_vars

----------------------------------------------------------------------------
(* Claims on collect_files (checked under SpecCollect).                    *)

\* the files at depth 1..d below a root that is a directory (none below a
\* root that is a file or is missing) whose metadata can be read
FilesWithin(d) ==
    IF root_kind # "dir" THEN {}
    ELSE { n \in tree : n.kind = "file" /\ n.meta_ok /\ Len(n.path) \in 1..d }

\* C10: collect_files with depth bound D returns one record for each regular
\* file at depth 1..D below the root and no other record, for every D, D = 0
\* and a root that is a file included.
C10_ExactlyWithinDepth ==
    pc = "collected" =>
        /\ Len(out) = Cardinality(FilesWithin(max_depth))
        /\ { out[i].rel_path : i \in 1..Len(out) } =
              { JoinWith(n.path, "/") : n \in FilesWithin(max_depth) }

----------------------------------------------------------------------------
(* Specification SpecMain: main.rs from its arguments to its output, on a  *)
(* directory b that holds one folder per period, each with or without the  *)
(* root M that the template names.                                         *)

MainTemplates ==
    { <<"b", "/", "r">> \o TokY \o <<"_">> \o TokM \o <<"/", "M">> }

\* entries of the --dates argument: dates of two months, two of one month,
\* one after a blank, one with a one-digit month and day, one with month 13,
\* and one that is no date
DateEntries ==
    { <<"2", "0", "2", "4", "-", "0", "8", "-", "0", "1">>,
      <<" ", "2", "0", "2", "4", "-", "1", "2", "-", "0", "1">>,
      <<"2", "0", "2", "4", "-", "0", "8", "-", "1", "5">>,
      <<"2", "0", "2", "4", "-", "8", "-", "1">>,
      <<"2", "0", "2", "4", "-", "1", "3", "-", "0", "1">>,
      <<"x">> }

DateArgs ==
    { [given |-> TRUE, text |-> JoinWith(es, ",")] :
        es \in UNION { [1..k -> DateEntries] : k \in 0..MaxDateArgs } }

PeriodFolders ==
    { <<"r", "2", "0", "2", "4", "_", "0", "8">>,
      <<"r", "2", "0", "2", "4", "_", "1", "2">> }

\* the file of a period's root that is named after the month: a08, a12
DatedName(f) == <<"a">> \o SubSeq(f, 7, 8)

FileNode(path) == [path |-> path, kind |-> "file", meta_ok |-> TRUE]
DirNode(path)  == [path |-> path, kind |-> "dir", meta_ok |-> TRUE]

\* what a root M can hold: the dated file; the dated file and a file of the
\* same name in the directory s; the dated file and the file n
RootTrees(f) ==
    { {FileNode(<<DatedName(f)>>)},
      {FileNode(<<DatedName(f)>>), DirNode(<< <<"s">> >>),
       FileNode(<< <<"s">>, DatedName(f) >>)},
      {FileNode(<<DatedName(f)>>), FileNode(<< <<"n">> >>)} }

\* a period's folder is absent, or is there without M, or holds the root M
FolderStates(f) ==
    { [state |-> "absent", tree |-> {}], [state |-> "folder", tree |-> {}] }
      \cup { [state |-> "root", tree |-> t] : t \in RootTrees(f) }

FileSystems ==
    { r \in [PeriodFolders -> UNION { FolderStates(f) : f \in PeriodFolders }] :
        \A f \in PeriodFolders : r[f] \in FolderStates(f) }

\* the folder of b whose root M the path names, <<>> when it names none
FolderAt(p) ==
    LET fs == { f \in DOMAIN roots : p = <<"b", "/">> \o f \o <<"/", "M">> }
    IN  IF fs = {} THEN <<>> ELSE CHOOSE f \in fs : TRUE

\* Path::exists
path_exists(p) == FolderAt(p) # <<>> /\ roots[FolderAt(p)].state = "root"

\* the entries fs::read_dir yields for dir: those of b, none elsewhere
ReadDir(dir) ==
    IF dir = <<"b">> THEN { f \in DOMAIN roots : roots[f].state # "absent" } ELSE {}

InitMain ==
    /\ platform \in Platforms
    /\ pc = "start"
    /\ yyyy = 0
    /\ mm = 0
    /\ path_template \in MainTemplates
    /\ date = NoDate
    /\ args_dates \in {NoArg} \cup DateArgs
    /\ roots \in FileSystems
    /\ main_dates = <<>>
    /\ next_date = 1
    /\ all = <<>>
    /\ key_order = <<>>
    /\ csv_rows = <<>>
    /\ html_sections = <<>>
    /\ NormIdle /\ RelIdle /\ ResIdle /\ DiscIdle /\ CollIdle
    /\ SelIdle /\ IdIdle /\ StampIdle

mainRest ==
    <<platform, yyyy, mm, path_template, date, name, normalized, restored,
      renormalized,
      relVars, resolved, discVars, collVars, selVars, idVars, stampVars,
      args_dates, roots>>

\* main, lines 292-299: the periods come from --dates where it is given and
\* from discovery where it is not
ReadDates ==
    /\ pc = "start"
    /\ IF args_dates.given
       THEN /\ main_dates' = parse_dates_arg(args_dates.text)
            /\ pc' = "loop"
       ELSE IF main_extract_panics(path_template)
            THEN /\ main_dates' = <<>>
                 /\ pc' = "panicked"
            ELSE /\ main_dates' = main_extract_dates_from_template(
                                      path_template,
                                      ReadDir(parent_or_dot(parent_or_dot(path_template))))
                 /\ pc' = "loop"
    /\ UNCHANGED <<mainRest, next_date, all, key_order, csv_rows, html_sections>>

SkipMissing_aborting ==
    /\ pc = "loop"
    /\ next_date <= Len(main_dates)
    /\ \E path \in {resolve_template(path_template, main_dates[next_date])} :
          ~path_exists(path)
    /\ pc' = "aborted"
    /\ UNCHANGED <<mainRest, next_date, main_dates, all, key_order, csv_rows,
                   html_sections>>

\* main, lines 303-308: the root of the period does not exist
SkipMissing ==
    /\ pc = "loop"
    /\ next_date <= Len(main_dates)
    /\ \E path \in {resolve_template(path_template, main_dates[next_date])} :
          ~path_exists(path)
    /\ next_date' = next_date + 1
    /\ UNCHANGED <<mainRest, pc, main_dates, all, key_order, csv_rows, html_sections>>

\* main, lines 303-313: the root exists, its files are collected and pushed
ScanPeriod ==
    /\ pc = "loop"
    /\ next_date <= Len(main_dates)
    /\ \E path \in {resolve_template(path_template, main_dates[next_date])} :
          /\ path_exists(path)
          /\ \E files \in main_collect_files("dir", roots[FolderAt(path)].tree,
                                              main_dates[next_date]) :
                 all' = push_all(all, files)
    /\ next_date' = next_date + 1
    /\ UNCHANGED <<mainRest, pc, main_dates, key_order, csv_rows, html_sections>>

\* main, lines 341-360: the CSV rows, the keys in the order of the map
WriteCsv ==
    /\ pc = "loop"
    /\ next_date > Len(main_dates)
    /\ \E ks \in Orders(DOMAIN all) :
          /\ key_order' = ks
          /\ csv_rows' = write_csv(all, ks)
    /\ pc' = "csv_written"
    /\ UNCHANGED <<mainRest, main_dates, next_date, all, html_sections>>

\* main, lines 362-363: the report, the keys again in the order of the map
WriteHtmlReport ==
    /\ pc = "csv_written"
    /\ html_sections' = write_html_report(all, key_order)
    /\ pc' = "done"
    /\ UNCHANGED <<mainRest, main_dates, next_date, all, key_order, csv_rows>>

NextMain ==
    \/ ReadDates
    \/ SkipMissing
    \/ ScanPeriod
    \/ WriteCsv
    \/ WriteHtmlReport

SpecMain == InitMain /\ [][NextMain]_vars

\* the period loop is sequential code: once entered, its body runs for the
\* next period as long as there is one
SpecMainFair == SpecMain /\ WF_vars(SkipMissing \/ ScanPeriod)

----------------------------------------------------------------------------
(* Claims on the period loop and the output of main.rs (checked under      *)
(* SpecMain).                                                              *)

\* the period loop has ended
LoopEnded == pc \in {"loop", "csv_written", "done"} /\ next_date > Len(main_dates)

\* the periods of the loop whose root exists
ScannedPeriods ==
    { main_dates[i] : i \in { j \in 1..Len(main_dates) :
          path_exists(resolve_template(path_template, main_dates[j])) } }

\* the files within the depth bound of main.rs below the root of period d
FilesOf(d) ==
    { n \in roots[FolderAt(resolve_template(path_template, d))].tree :
        n.kind = "file" /\ Len(n.path) <= 2 }

\* the labels of the periods in which a file of identity k was found, the
\* identity of a file being its normalized file name
LabelsOf(k) ==
    { format_year_month(d) :
        d \in { e \in ScannedPeriods :
                  \E n \in FilesOf(e) :
                      normalize_filename(n.path[Len(n.path)], e.year, e.month) = k } }

\* C11: after the period loop the files that differ by the date only are under
\* one key, and the list of every key holds exactly one record for each period
\* in which the key was found: no two records of a list have the same label.
C11_OneRecordPerPeriod ==
    LoopEnded =>
        \A k \in DOMAIN all :
            /\ { all[k][i].date_str : i \in 1..Len(all[k]) } = LabelsOf(k)
            /\ Len(all[k]) = Cardinality(LabelsOf(k))

\* the records of the grouped result that carry the label of period d
RecordsOf(d) ==
    { <<k, i>> \in (DOMAIN all) \X (1..(2 * MaxDateArgs + 4)) :
        i <= Len(all[k]) /\ all[k][i].date_str = format_year_month(d) }

\* C12: the key of a record is the normalized relative path of its file, so
\* the files of one period that have the same name in different directories
\* are under different keys and each of them has its record.
C12_KeyIsRelativePath ==
    LoopEnded =>
        \A d \in ScannedPeriods :
            /\ \A n \in FilesOf(d) :
                  LET k == normalize_rel_path(JoinWith(n.path, "/"), d.year, d.month)
                  IN  /\ k \in DOMAIN all
                      /\ \E i \in 1..Len(all[k]) :
                            /\ all[k][i].actual_name = n.path[Len(n.path)]
                            /\ all[k][i].date_str = format_year_month(d)
            /\ Cardinality(RecordsOf(d)) >= Cardinality(FilesOf(d))

\* the step of the period loop for a period whose root does not exist
MissingRootStep ==
    /\ pc = "loop"
    /\ next_date <= Len(main_dates)
    /\ ~path_exists(resolve_template(path_template, main_dates[next_date]))

\* C13: a period whose root does not exist adds no record and leaves the
\* grouped result as it is, the loop goes on with the next period, and it
\* always reaches the end of the period list.
C13_MissingRootSkipped ==
    /\ [][MissingRootStep =>
            /\ all' = all
            /\ main_dates' = main_dates
            /\ next_date' = next_date + 1
            /\ pc' = "loop"]_vars
    /\ (pc = "loop") ~> LoopEnded

\* a period without root was skipped and the period after it has its record
C13_Witness ==
    /\ LoopEnded
    /\ \E i \in 1..(Len(main_dates) - 1) :
          /\ ~path_exists(resolve_template(path_template, main_dates[i]))
          /\ path_exists(resolve_template(path_template, main_dates[i + 1]))
          /\ \E k \in DOMAIN all :
                \E j \in 1..Len(all[k]) :
                    all[k][j].date_str = format_year_month(main_dates[i + 1])

\* C14: the output lists the keys in lexicographic order and, under each key,
\* the records by ascending label, in the CSV rows and in the report alike,
\* whatever the input; so the output is one sequence fixed by the file system.
C14_SortedOutput ==
    pc = "done" =>
        /\ \A i, j \in 1..Len(csv_rows) :
              i < j =>
                  /\ TextLE(csv_rows[i].norm_name, csv_rows[j].norm_name)
                  /\ csv_rows[i].norm_name = csv_rows[j].norm_name =>
                        TextLE(csv_rows[i].date_str, csv_rows[j].date_str)
        /\ \A i, j \in 1..Len(html_sections) :
              i < j => TextLE(html_sections[i].norm_name, html_sections[j].norm_name)
        /\ \A i \in 1..Len(html_sections) :
              \A a, b \in 1..Len(html_sections[i].dates) :
                  a < b => TextLE(html_sections[i].dates[a], html_sections[i].dates[b])

\* an entry written as YYYY-MM-DD: four digits, two digits, two digits, with
\* a dash between them, naming a day of the calendar
WellFormedEntry(e) ==
    /\ Len(e) = 10
    /\ e[5] = "-" /\ e[8] = "-"
    /\ \A i \in {1, 2, 3, 4, 6, 7, 9, 10} : IsDigit(e[i])
    /\ from_ymd_opt(parse_int(SubSeq(e, 1, 4)), parse_int(SubSeq(e, 6, 7)),
                    parse_int(SubSeq(e, 9, 10))) # NoDate

RECURSIVE WellFormedPeriods(_)
WellFormedPeriods(es) ==
    IF es = <<>> THEN <<>>
    ELSE (IF WellFormedEntry(trim(Head(es)))
          THEN LET e == trim(Head(es))
               IN  <<from_ymd_opt(parse_int(SubSeq(e, 1, 4)),
                                  parse_int(SubSeq(e, 6, 7)),
                                  parse_int(SubSeq(e, 9, 10)))>>
          ELSE <<>>) \o WellFormedPeriods(Tail(es))

\* C15: with --dates, the periods are the entries written as YYYY-MM-DD (blanks
\* around an entry aside), in their order; every other entry is dropped, the
\* run does not fail, and discovery is not run.
C15_ExplicitDates ==
    (args_dates.given /\ pc # "start") =>
        /\ pc # "panicked"
        /\ main_dates = WellFormedPeriods(split(args_dates.text, ","))

----------------------------------------------------------------------------
(* lib.rs: sanitize_id.                                                    *)

MaxIdPieces == 3

AsciiDigits == {"0", "1", "2", "3", "4", "5", "6", "7", "8", "9"}

\* char::is_ascii_alphanumeric
is_ascii_alphanumeric(ch) ==
    ch \in AsciiDigits \cup
           {"a", "b", "c", "d", "e", "f", "g", "h", "i", "j", "k", "l", "m",
            "n", "o", "p", "q", "r", "s", "t", "u", "v", "w", "x", "y", "z",
            "A", "B", "C", "D", "E", "F", "G", "H", "I", "J", "K", "L", "M",
            "N", "O", "P", "Q", "R", "S", "T", "U", "V", "W", "X", "Y", "Z"}

\* sanitize_id_base: every character that is not ASCII alphanumeric becomes
\* "_"; a result that starts with a digit or a dash gets "id_" in front
sanitize_id_base(s) ==
    LET base == [i \in 1..Len(s) |->
                    IF is_ascii_alphanumeric(s[i]) THEN s[i] ELSE "_"]
    IN  IF base # <<>> /\ (Head(base) \in AsciiDigits \/ Head(base) = "-")
        THEN <<"i", "d", "_">> \o base
        ELSE base

HexChar(d) ==
    <<"0", "1", "2", "3", "4", "5", "6", "7", "8", "9",
      "a", "b", "c", "d", "e", "f">>[d + 1]

\* format!("{:x}", n): lowercase hexadecimal, no padding
RECURSIVE to_hex(_)
to_hex(n) ==
    IF n < 16 THEN <<HexChar(n)>>
    ELSE to_hex(n \div 16) \o <<HexChar(n % 16)>>

\* format!("{:08x}", n): zero-padded to width 8, longer where n needs it
RECURSIVE pad_to_8(_)
pad_to_8(s) == IF Len(s) >= 8 THEN s ELSE pad_to_8(<<"0">> \o s)

format_08x(n) == pad_to_8(to_hex(n))

\* sanitize_id: the base, "_" and the hash of s the hasher finished with
sanitize_id(s, hash) == sanitize_id_base(s) \o <<"_">> \o format_08x(hash)

----------------------------------------------------------------------------
(* Specification SpecSanitize: sanitize_id on an identity string.          *)

IdPieces ==
    { <<"a">>, <<"Z">>, <<"7">>, <<"-">>, <<"/">>, <<".">>, <<"{">> }

\* short texts, and the three of tests/unit_tests.rs
IdInputs ==
    TextsOf(IdPieces, MaxIdPieces) \cup
        { <<"S", "u", "b", "/", "I", "n", "T", "h", "e", "B", "o", "x",
            "{", "m", "m", "}", "-", "{", "y", "y", "y", "y", "}",
            ".", "x", "l", "s", "x">>,
          <<"f", "i", "l", "e", "1", "2", "3", "A", "B", "C">>,
          <<"t", "e", "s", "t", "@", "#", "$", "%",
            "f", "i", "l", "e", ".", "t", "x", "t">> }

\* what DefaultHasher::finish can return for a text is fixed by the standard
\* library's hasher, not by this program: any u64 (values below 2^31 here)
HashValues == {0, 43981, 2147483647}

InitSanitize ==
    /\ platform \in Platforms
    /\ pc = "start"
    /\ yyyy = 0
    /\ mm = 0
    /\ path_template = <<>>
    /\ date = NoDate
    /\ id_input \in IdInputs
    /\ id_hash = 0
    /\ id_result = <<>>
    /\ NormIdle /\ RelIdle /\ ResIdle /\ DiscIdle /\ CollIdle
    /\ SelIdle /\ MainIdle /\ StampIdle

SanitizeId ==
    /\ pc = "start"
    /\ \E hash \in HashValues :
          /\ id_hash' = hash
          /\ id_result' = sanitize_id(id_input, hash)
    /\ pc' = "sanitized"
    /\ UNCHANGED <<platform, normVars, relVars, path_template, date, resolved,
                   discVars, collVars, selVars, mainVars, stampVars, id_input>>

NextSanitize == SanitizeId

SpecSanitize == InitSanitize /\ [][NextSanitize]_vars

----------------------------------------------------------------------------
(* Claims on sanitize_id (checked under SpecSanitize).                     *)

\* C16: sanitize_id(s) is s with every character that is not ASCII
\* alphanumeric replaced by one underscore, and nothing else added.
C16_OnlyUnderscores ==
    pc = "sanitized" =>
        id_result = [i \in 1..Len(id_input) |->
                        IF is_ascii_alphanumeric(id_input[i])
                        THEN id_input[i] ELSE "_"]

----------------------------------------------------------------------------
(* Specification SpecSelect: the choice of the pattern segment and of the  *)
(* directory to scan in extract_dates_from_template, one turn of its loop  *)
(* at a time.                                                              *)

MaxSelectSegments == 3

\* segments of a template: plain names, names with placeholders, and ".."
SelectSegments ==
    { <<"b">>, <<"M">>, <<".", ".">>,
      <<"r">> \o TokY \o <<"_">> \o TokM,
      <<"d">> \o TokD }

SelectTemplates ==
    { JoinWith(segs, sep) :
        segs \in UNION { [1..k -> SelectSegments] : k \in 1..MaxSelectSegments },
        sep \in Separators }

\* let mut cursor = tpl.clone()
InitSelect ==
    /\ platform \in Platforms
    /\ pc = "walk"
    /\ yyyy = 0
    /\ mm = 0
    /\ path_template \in SelectTemplates
    /\ date = NoDate
    /\ resolved = <<>>
    /\ cursor = path_template
    /\ NormIdle /\ RelIdle /\ DiscIdle /\ CollIdle
    /\ MainIdle /\ IdIdle /\ StampIdle

selectRest ==
    <<platform, normVars, relVars, resVars, dir_readable, dir_entries, dates,
      collVars, mainVars, idVars, stampVars>>

\* a turn of the loop on a cursor whose last component has a placeholder:
\* seg_with_ph = Some((cursor, name)), break
WalkFound ==
    /\ pc = "walk"
    /\ file_name(cursor) # <<>>
    /\ has_ph(file_name(cursor))
    /\ pc' = "found"
    /\ UNCHANGED <<selectRest, cursor, base_dir, folder_tpl>>

\* a turn on a cursor whose last component has none: cursor.pop()
WalkUp ==
    /\ pc = "walk"
    /\ file_name(cursor) # <<>>
    /\ ~has_ph(file_name(cursor))
    /\ has_parent(cursor)
    /\ cursor' = parent(cursor)
    /\ UNCHANGED <<selectRest, pc, base_dir, folder_tpl>>

\* the loop ends without a segment: cursor.file_name() is None, or pop fails
WalkEnd ==
    /\ pc = "walk"
    /\ \/ file_name(cursor) = <<>>
       \/ ~has_ph(file_name(cursor)) /\ ~has_parent(cursor)
    /\ pc' = "fallback"
    /\ UNCHANGED <<selectRest, cursor, base_dir, folder_tpl>>

\* lines 155-157: the parent of the segment found, and the segment
DecideFound ==
    /\ pc = "found"
    /\ base_dir' = parent_or_dot(cursor)
    /\ folder_tpl' = file_name(cursor)
    /\ pc' = "selected"
    /\ UNCHANGED <<selectRest, cursor>>

\* lines 159-166: the parent of the template's parent, and that parent's name
DecideFallback ==
    /\ pc = "fallback"
    /\ base_dir' = parent_or_dot(parent_or_dot(path_template))
    /\ folder_tpl' = file_name(parent_or_dot(path_template))
    /\ pc' = "selected"
    /\ UNCHANGED <<selectRest, cursor>>

NextSelect == WalkFound \/ WalkUp \/ WalkEnd \/ DecideFound \/ DecideFallback

SpecSelect == InitSelect /\ [][NextSelect]_vars

----------------------------------------------------------------------------
(* Claims on the selection (checked under SpecSelect).                     *)

\* the segments of the template that have a placeholder, by position
PlaceholderSegments ==
    { i \in 1..Len(PlatformSegments(path_template)) :
        has_ph(PlatformSegments(path_template)[i]) }

\* C17: the selection ends, and where a segment of the template has a
\* placeholder, the pattern segment is the last such segment and the
\* directory scanned is made of the segments before it, as they are written.
C17_DeepestPlaceholderSegment ==
    (pc = "selected" /\ PlaceholderSegments # {}) =>
        LET segs == PlatformSegments(path_template)
            k == Max(PlaceholderSegments)
        IN  /\ folder_tpl = segs[k]
            /\ k > 1 => PlatformSegments(base_dir) = SubSeq(segs, 1, k - 1)

----------------------------------------------------------------------------
(* Claims on the fallback of discovery (checked under SpecDiscover).       *)

NoPlaceholderSegment ==
    \A i \in 1..Len(PlatformSegments(path_template)) :
        ~has_ph(PlatformSegments(path_template)[i])

\* the segments of the template before its last two, as a path
BeforeParentSegment ==
    LET segs == PlatformSegments(path_template)
    IN  JoinWith(SubSeq(segs, 1, Len(segs) - 2), "/")

ParentSegment ==
    PlatformSegments(path_template)[Len(PlatformSegments(path_template)) - 1]

\* C18 as stated: for a template without a placeholder, the pattern segment is
\* the segment before the last, the directory scanned is the path before that
\* segment, and the call returns the empty list.
C18_FallbackAsStated ==
    (pc # "start" /\ NoPlaceholderSegment) =>
        /\ pc = "discovered"
        /\ dates = <<>>
        /\ base_dir = BeforeParentSegment
        /\ folder_tpl = ParentSegment

\* C18, amended: the same, with the empty pattern where the segment before
\* the last is "..".
C18_Fallback ==
    (pc # "start" /\ NoPlaceholderSegment) =>
        /\ pc = "discovered"
        /\ dates = <<>>
        /\ base_dir = BeforeParentSegment
        /\ folder_tpl = IF ParentSegment = <<".", ".">> THEN <<>> ELSE ParentSegment

\* the fallback on b/r/M, with b readable and holding a name the pattern r
\* matches
C18_Witness ==
    /\ pc = "discovered"
    /\ path_template = <<"b", "/", "r", "/", "M">>
    /\ dir_readable
    /\ <<"r", "2", "0", "2", "4", "_", "0", "8">> \in dir_entries
    /\ folder_tpl = <<"r">>
    /\ base_dir = <<"b">>

----------------------------------------------------------------------------
(* Claims on the order of the period loop (checked under SpecMain).        *)

\* the positions of main_dates the loop has resolved and scanned so far
ScannedSoFar ==
    { i \in 1..(next_date - 1) :
        path_exists(resolve_template(path_template, main_dates[i])) }

\* C19: the loop takes the periods in ascending chronological order: no
\* period is resolved and scanned after a later one, with discovered periods
\* and with an explicit date list alike.
C19_AscendingLoop ==
    pc \in {"loop", "csv_written", "done"} =>
        \A i, j \in ScannedSoFar :
            i < j => DateLE(main_dates[i], main_dates[j])

----------------------------------------------------------------------------
(* lib.rs: the created and modified columns of collect_files.  A time is   *)
(* the DateTime<Local> made from the file's SystemTime, as its calendar    *)
(* fields in a zone whose offset does not change within the minute added;  *)
(* NoTime stands for the Err of Metadata::created / Metadata::modified.    *)

\* dt + Duration::minutes(1)
add_minute(dt) ==
    IF dt.minute < 59 THEN [dt EXCEPT !.minute = dt.minute + 1]
    ELSE IF dt.hour < 23 THEN [dt EXCEPT !.minute = 0, !.hour = dt.hour + 1]
    ELSE IF dt.day < DaysIn(dt.year, dt.month)
         THEN [dt EXCEPT !.minute = 0, !.hour = 0, !.day = dt.day + 1]
    ELSE IF dt.month < 12
         THEN [dt EXCEPT !.minute = 0, !.hour = 0, !.day = 1,
                         !.month = dt.month + 1]
    ELSE [dt EXCEPT !.minute = 0, !.hour = 0, !.day = 1, !.month = 1,
                    !.year = dt.year + 1]

round_minute_above_30(dt) == IF dt.second > 30 THEN add_minute(dt) ELSE dt

\* if dt.second() >= 30 { dt = dt + Duration::minutes(1); }
round_minute(dt) == IF dt.second >= 30 THEN add_minute(dt) ELSE dt

\* format!("{:04}", n) for a year of the common era
Pad4(n) ==
    IF n < 10 THEN <<"0", "0", "0">> \o to_string(n)
    ELSE IF n < 100 THEN <<"0", "0">> \o to_string(n)
    ELSE IF n < 1000 THEN <<"0">> \o to_string(n)
    ELSE to_string(n)

\* dt.format("%Y/%m/%d %H:%M")
format_minute(dt) ==
    Pad4(dt.year) \o <<"/">> \o Pad2(dt.month) \o <<"/">> \o Pad2(dt.day)
      \o <<" ">> \o Pad2(dt.hour) \o <<":">> \o Pad2(dt.minute)

\* one column: the rounded time formatted, "N/A" where the time is not there
time_column(t) ==
    IF ~t.available THEN <<"N", "/", "A">> ELSE format_minute(round_minute(t))

----------------------------------------------------------------------------
(* Specification SpecTimestamp: the two time columns of one file.          *)

\* days at the end of February and of the year, and one in mid-year
StampDays ==
    { <<2, 28>>, <<2, 29>>, <<6, 15>>, <<12, 31>> }

StampTimes ==
    { t \in [available : {TRUE}, year : {2023, 2024}, month : {2, 6, 12},
              day : {15, 28, 29, 31}, hour : {11, 23}, minute : {7, 59},
              second : {0, 29, 30, 59}] :
        /\ <<t.month, t.day>> \in StampDays
        /\ from_ymd_opt(t.year, t.month, t.day) # NoDate }

InitTimestamp ==
    /\ platform \in Platforms
    /\ pc = "start"
    /\ yyyy = 0
    /\ mm = 0
    /\ path_template = <<>>
    /\ date = NoDate
    /\ resolved = <<>>
    /\ created_at \in StampTimes \cup {NoTime}
    /\ modified_at \in StampTimes \cup {NoTime}
    /\ created = <<>>
    /\ modified = <<>>
    /\ NormIdle /\ RelIdle /\ DiscIdle /\ CollIdle
    /\ SelIdle /\ MainIdle /\ IdIdle

FormatStamps ==
    /\ pc = "start"
    /\ created' = time_column(created_at)
    /\ modified' = time_column(modified_at)
    /\ pc' = "stamped"
    /\ UNCHANGED <<platform, normVars, relVars, resVars, discVars, collVars,
                   selVars, mainVars, idVars, created_at, modified_at>>

NextTimestamp == FormatStamps

SpecTimestamp == InitTimestamp /\ [][NextTimestamp]_vars

----------------------------------------------------------------------------
(* Claims on the time columns (checked under SpecTimestamp).               *)

\* the number of the day among the days from 1 January 2023 on
RECURSIVE DaysBeforeMonth(_, _)
DaysBeforeMonth(y, m) ==
    IF m = 1 THEN 0 ELSE DaysBeforeMonth(y, m - 1) + DaysIn(y, m - 1)

RECURSIVE DaysBeforeYear(_)
DaysBeforeYear(y) ==
    IF y <= 2023 THEN 0
    ELSE DaysBeforeYear(y - 1) + DaysBeforeMonth(y - 1, 12) + DaysIn(y - 1, 12)

\* the number of the minute a time lies in
MinuteNumber(t) ==
    ((DaysBeforeYear(t.year) + DaysBeforeMonth(t.year, t.month) + t.day - 1) * 24
        + t.hour) * 60 + t.minute

\* the time a column of the form YYYY/MM/DD HH:MM names
ColumnTime(c) ==
    [year |-> parse_int(SubSeq(c, 1, 4)), month |-> parse_int(SubSeq(c, 6, 7)),
     day |-> parse_int(SubSeq(c, 9, 10)), hour |-> parse_int(SubSeq(c, 12, 13)),
     minute |-> parse_int(SubSeq(c, 15, 16))]

\* c is written YYYY/MM/DD HH:MM and names a minute of the calendar
IsMinuteColumn(c) ==
    /\ Len(c) = 16
    /\ c[5] = "/" /\ c[8] = "/" /\ c[11] = " " /\ c[14] = ":"
    /\ \A i \in (1..16) \ {5, 8, 11, 14} : IsDigit(c[i])
    /\ from_ymd_opt(ColumnTime(c).year, ColumnTime(c).month, ColumnTime(c).day) # NoDate
    /\ ColumnTime(c).hour \in 0..23
    /\ ColumnTime(c).minute \in 0..59

\* the column c is the time t rounded to the minute
RoundedTo(c, t) ==
    /\ IsMinuteColumn(c)
    /\ MinuteNumber(ColumnTime(c)) =
          MinuteNumber(t) + (IF t.second >= 30 THEN 1 ELSE 0)

\* C20: a time with seconds 0..29 is written with its own minute and one with
\* seconds 30..59 with the minute after it, the carry going into hour, day,
\* month and year; the created and the modified column follow the same rule.
C20_RoundsToMinute ==
    pc = "stamped" =>
        /\ created_at.available => RoundedTo(created, created_at)
        /\ modified_at.available => RoundedTo(modified, modified_at)
        /\ (created_at.available /\ modified_at.available
              /\ MinuteNumber(created_at) = MinuteNumber(modified_at)
              /\ (created_at.second >= 30) = (modified_at.second >= 30))
             => created = modified

\* 23:59:30 on the last day of 2023 is written as 00:00 of 1 January 2024, and
\* 11:07:29 with its own minute
C20_Witness ==
    /\ pc = "stamped"
    /\ created_at = [available |-> TRUE, year |-> 2023, month |-> 12, day |-> 31,
                     hour |-> 23, minute |-> 59, second |-> 30]
    /\ created = <<"2", "0", "2", "4", "/", "0", "1", "/", "0", "1", " ",
                   "0", "0", ":", "0", "0">>
    /\ modified_at = [available |-> TRUE, year |-> 2024, month |-> 2, day |-> 29,
                      hour |-> 11, minute |-> 7, second |-> 29]
    /\ modified = <<"2", "0", "2", "4", "/", "0", "2", "/", "2", "9", " ",
                    "1", "1", ":", "0", "7">>

----------------------------------------------------------------------------
(* Claims on the records of collect_files (checked under SpecCollect).     *)

\* the record r describes the file n of the tree for the period d
DescribesFile(r, n, d) ==
    /\ r.rel_path = JoinWith(n.path, "/")
    /\ r.actual_name = Last(SplitAt(r.rel_path, {"/"}))
    /\ r.date_str = FourDigits(d.year) \o <<"-">> \o TwoDigits(d.month)
    /\ r.normalized_rel_path = normalize_rel_path(r.rel_path, d.year, d.month)

\* C21: every record of collect_files has the file's path below the root,
\* written with "/" only, as rel_path, the last segment of rel_path as
\* actual_name, the period's year and two-digit month as date_str, and
\* normalize_rel_path of rel_path as normalized_rel_path.
C21_RecordFields ==
    pc = "collected" =>
        \A i \in 1..Len(out) :
            \E n \in { m \in tree : m.kind = "file" } : DescribesFile(out[i], n, date)

----------------------------------------------------------------------------
(* Claims on the pattern of discovery (checked under SpecDiscover).        *)

\* C22: the pattern built from the pattern segment compiles for every
\* template of literal text and placeholders, one that repeats a placeholder
\* included, so the call never ends in the failure of Regex::new.
C22_PatternCompiles ==
    pc # "start" =>
        /\ regex_compiles(build_re_str(folder_tpl))
        /\ pc = "discovered"

----------------------------------------------------------------------------
(* Claims on normalize_filename applied twice (checked under               *)
(* SpecNormalize).                                                         *)

\* C23: the result of normalize_filename holds neither the year's decimal
\* text nor the two-digit month, normalizing it again changes nothing, and a
\* name that holds neither is returned as it is.
C23_Idempotent ==
    /\ pc \in {"normalized", "restored", "renormalized"} =>
          /\ ~Contains(normalized, to_string(yyyy))
          /\ ~Contains(normalized, Pad2(mm))
          /\ (~Contains(name, to_string(yyyy)) /\ ~Contains(name, Pad2(mm)))
                => normalized = name
    /\ pc = "renormalized" => renormalized = normalized

\* a name with the year and the month, normalized twice
C23_Witness ==
    /\ pc = "renormalized"
    /\ yyyy = 2024
    /\ mm = 8
    /\ name = <<"2", "0", "2", "4", "0", "8">>
    /\ normalized = TokY \o TokM
    /\ renormalized = normalized

----------------------------------------------------------------------------
(* Claims on discovery followed by resolution (checked under               *)
(* SpecDiscover).                                                          *)

\* C24: for every period discovery returns, the pattern segment resolved for
\* that period is the name of an entry of the directory scanned, entries with
\* a one-digit month and entries of one and the same period included.
C24_ResolvesToEntry ==
    pc = "discovered" =>
        \A i \in 1..Len(dates) :
            resolve_template(folder_tpl, dates[i]) \in dir_entries

----------------------------------------------------------------------------
(* Claims on the grouping fold (checked under SpecMain).                   *)

\* every list of the mapping is kept as the front of its list after the step
AppendOnlyStep ==
    \A k \in DOMAIN all :
        /\ k \in DOMAIN all'
        /\ Len(all[k]) <= Len(all'[k])
        /\ SubSeq(all'[k], 1, Len(all[k])) = all[k]

\* the number of records in the mapping
RECURSIVE RecordCount(_)
RecordCount(ks) ==
    IF ks = {} THEN 0
    ELSE LET k == CHOOSE x \in ks : TRUE
         IN  Len(all[k]) + RecordCount(ks \ {k})

\* the number of files within the depth bound below the roots of the periods
\* at the positions 1..n of the period list, a root counted once per scan
RECURSIVE FileCount(_)
FileCount(n) ==
    IF n = 0 THEN 0
    ELSE FileCount(n - 1)
           + (IF path_exists(resolve_template(path_template, main_dates[n]))
              THEN Cardinality(FilesOf(main_dates[n])) ELSE 0)

\* C25: every step of the period loop only appends to the lists of the
\* mapping, removing no key and changing no stored record, and at the end the
\* mapping holds as many records as there are regular files within the depth
\* bound below the period roots that exist.
C25_AppendOnlyAndComplete ==
    /\ [][AppendOnlyStep]_vars
    /\ [](LoopEnded => RecordCount(DOMAIN all) = FileCount(Len(main_dates)))

====
